---------------------------- MODULE Spec2Model ----------------------------
(***************************************************************************)
(* Prioritized Experience Replay buffer (class PER), the beta schedule     *)
(* (beta_by_frame) and the training step (optimize_model) driven by the    *)
(* training loop (modele) of src/src/per.py.                               *)
(*                                                                         *)
(* Numbers.  Priorities are held in units of 1e-5 (the epsilon of          *)
(* optimize_model), so 1e-5 is 1 and the seed priority 1.0 is 100000.      *)
(* prob_alpha = 0.6 = 3/5: x ** 0.6 is computed exactly as (5th root)^3,   *)
(* and every priority that occurs is a perfect fifth power.  beta is held  *)
(* in units of 1/10000.  A real number c * (n/d) ** (-beta) is held as the *)
(* record [c, n, d]: the importance weights are such numbers with c = 1.   *)
(* Arrays are functions on 0..len-1, as in the source.  float32 rounding   *)
(* of the weights and of the loss is not modelled.                         *)
(***************************************************************************)
EXTENDS Integers, FiniteSets, Sequences, TLC

VARIABLES
    capacity,     \* PER.capacity
    memory,       \* PER.memory, the list of transitions
    pos,          \* PER.pos, the write cursor
    priorities,   \* PER.priorities, one entry per slot of the capacity
    steps_done,   \* the global step counter of select_action
    beta,         \* the local beta of modele, None before it is first bound
    pc,           \* where the training loop stands: "act", "optimize", "raised"
    batch,        \* the locals of the last optimize_model call
    pushed,       \* history: the number of push calls so far
    fresh,        \* history: slots pushed and not written by update_priorities since
    sinceUpdate,  \* history: slots pushed since the last update_priorities call
    call          \* history: the last direct call of a PER method and its outcome

vars == <<capacity, memory, pos, priorities, steps_done, beta, pc, batch,
          pushed, fresh, sinceUpdate, call>>

(* ------------------------------ bounds -------------------------------- *)
MaxCapacity == 3
MaxSteps == 5
MaxFrames == 1100
MaxArgs == 2

(* ------------------------- program constants -------------------------- *)
BATCH_SIZE == 2
EPS == 1
ONE == 100000
AlphaNum == 3
AlphaDen == 5
BetaScale == 10000
beta_start == 4000
beta_frames == 1000
GammaNum == 8
GammaDen == 10
None == -1

(* The environment and the value networks are external.                    *)
\* env.step: a step that goes on, or one that ends the episode
StepOutcomes == {[reward |-> 2, done |-> FALSE], [reward |-> 1, done |-> TRUE]}

\* target_net(states).max(1)[0] for one state: some function of the state
target_net_max(s) == 5 * (1 + (s % 2))

\* (q_value - expected_q_value) ** 2 times weights[0], in units of 1e-5:
\* zero, or large enough to pass the seed priority 1.0
TDGrid == {0, 161050}

(* ------------------------------ helpers ------------------------------- *)
Len0(f) == Cardinality(DOMAIN f)

Empty == [i \in {} |-> 0]

Min2(a, b) == IF a <= b THEN a ELSE b

RECURSIVE Gcd(_, _)
Gcd(a, b) == IF b = 0 THEN a ELSE Gcd(b, a % b)

RECURSIVE SumTo(_, _)
SumTo(f, n) == IF n = 0 THEN 0 ELSE f[n - 1] + SumTo(f, n - 1)

ArrayMax(f) == CHOOSE m \in {f[i] : i \in DOMAIN f} : \A i \in DOMAIN f : f[i] <= m

Append0(f, x) == [i \in 0 .. Len0(f) |-> IF i = Len0(f) THEN x ELSE f[i]]

(* ------------------------- reals c*(n/d)^(-beta) ----------------------- *)
Reduce(x) ==
    LET g == Gcd(x.n, x.d)
    IN  IF g = 0 THEN x ELSE [c |-> x.c, n |-> x.n \div g, d |-> x.d \div g]

Mul(x, y) == Reduce([c |-> x.c * y.c, n |-> x.n * y.n, d |-> x.d * y.d])

Div(x, y) == Reduce([c |-> x.c, n |-> x.n * y.d, d |-> x.d * y.n])

Inv(x) == Reduce([c |-> 1, n |-> x.d, d |-> x.n])

Nat2Real(k) == [c |-> k, n |-> 1, d |-> 1]

IsOne(w) == w.c = 1 /\ w.n = w.d

Positive(w) == w.c > 0 /\ w.n > 0 /\ w.d > 0

\* (n/d)^(-beta) <= 1 iff n/d >= 1, for beta > 0
AtMostOne(w, b) == w.c = 1 /\ (IF b = 0 THEN TRUE ELSE w.n >= w.d)

\* v <= w for two powers with the same exponent -beta
PowLeq(v, w, b) == IF b = 0 THEN TRUE ELSE v.n * w.d >= w.n * v.d

\* x = y for two reals with the same exponent and the same coefficient
EqReal(x, y) == x.c = y.c /\ (x.c = 0 \/ x.n * y.d = y.n * x.d)

\* the value, in units, of a real that is a whole number of units
Exact(x) == CHOOSE v \in {x.c} : x.c = 0 \/ x.n = x.d

AddEps_none(x) == [r |-> x, plus |-> 0]

\* x + 1e-5
AddEps(x) == [r |-> x, plus |-> EPS]

\* a float of the loss matrix stored into the float64 priority array
ToUnits(x) == Exact(x.r) + x.plus

(* ------------------------------- PER ----------------------------------- *)
Transition(state, reward, next_state, done) ==
    [state |-> state, reward |-> reward, next_state |-> next_state, done |-> done]

max_prio_one(mem, prio) == ONE

max_prio_min(mem, prio) ==
    IF mem # Empty
    THEN CHOOSE m \in {prio[i] : i \in DOMAIN prio} : \A i \in DOMAIN prio : m <= prio[i]
    ELSE ONE

\* max_prio = self.priorities.max() if self.memory else 1.0
max_prio(mem, prio) == IF mem # Empty THEN ArrayMax(prio) ELSE ONE

StoreTransition(mem, p, cap, t) ==
    IF Len0(mem) < cap THEN Append0(mem, t) ELSE [mem EXCEPT ![p] = t]

NextPos_nowrap(p, cap) == p + 1

\* (self.pos + 1) % self.capacity
NextPos(p, cap) == (p + 1) % cap

\* x ** prob_alpha
PowAlpha(x) ==
    LET r == CHOOSE r \in 0 .. 11 : r ^ AlphaDen = x
    IN  r ^ AlphaNum

PrioSlice(mem, prio, p, cap) ==
    IF Len0(mem) = cap THEN prio ELSE [i \in 0 .. (p - 1) |-> prio[i]]

\* probs = prios ** alpha; probs /= probs.sum()
Probs(prios) ==
    LET u == [i \in DOMAIN prios |-> PowAlpha(prios[i])]
        s == SumTo(u, Len0(u))
    IN  [i \in DOMAIN prios |-> [n |-> u[i], d |-> s]]

\* np.random.choice(a, size, p = probs) raises ValueError
ChoiceRaises(a, probs) ==
    \/ a = 0
    \/ Len0(probs) # a
    \/ \E i \in DOMAIN probs : probs[i].d = 0

\* the index vectors np.random.choice(a, size, p = probs) can return
ChoiceDraws(a, size, probs) ==
    [0 .. (size - 1) -> {i \in 0 .. (a - 1) : probs[i].n > 0}]

\* weights = (total * probs[indices]) ** (-beta)
RawWeights(total, probs, indices) ==
    [k \in DOMAIN indices |->
        Reduce([c |-> 1, n |-> total * probs[indices[k]].n, d |-> probs[indices[k]].d])]

WeightsMax(w, b) ==
    CHOOSE m \in {w[k] : k \in DOMAIN w} : \A k \in DOMAIN w : PowLeq(w[k], m, b)

Normalise_skip(w, b) == w

\* weights /= weights.max()
Normalise(w, b) == [k \in DOMAIN w |-> Div(w[k], WeightsMax(w, b))]

Weights(total, probs, indices, b) ==
    Normalise(RawWeights(total, probs, indices), b)

\* for idx, prio in zip(batch_indices, batch_priorities): priorities[idx] = prio[0]
update_priorities(prio, batch_indices, batch_priorities) ==
    LET n == Min2(Len0(batch_indices), Len0(batch_priorities))
        hits(s) == {k \in 0 .. (n - 1) : batch_indices[k] = s}
        last(s) == CHOOSE k \in hits(s) : \A j \in hits(s) : j <= k
    IN  [s \in DOMAIN prio |->
            IF hits(s) = {} THEN prio[s] ELSE batch_priorities[last(s)][0]]

(* --------------------------- beta schedule ------------------------------ *)
beta_unclamped(frame_idx) ==
    beta_start + (frame_idx * (BetaScale - beta_start)) \div beta_frames

\* min(1.0, beta_start + frame_idx * (1.0 - beta_start) / beta_frames)
beta_by_frame(frame_idx) ==
    Min2(BetaScale, beta_start + (frame_idx * (BetaScale - beta_start)) \div beta_frames)

(* ------------------------------ sample ---------------------------------- *)
SampleProbs == Probs(PrioSlice(memory, priorities, pos, capacity))

SampleRaises == ChoiceRaises(Len0(memory), SampleProbs)

\* indices, weights and the per-item columns of the batch
Sample(b) ==
    { [indices |-> ix,
       weights |-> Weights(Len0(memory), SampleProbs, ix, b),
       probs |-> SampleProbs,
       rewards |-> [k \in DOMAIN ix |-> memory[ix[k]].reward],
       next_states |-> [k \in DOMAIN ix |-> memory[ix[k]].next_state]] :
      ix \in ChoiceDraws(Len0(memory), BATCH_SIZE, SampleProbs) }

(* --------------------------- optimize_model ----------------------------- *)
NoBatch ==
    [status |-> "none", beta |-> 0, indices |-> Empty, weights |-> Empty,
     probs |-> Empty, rewards |-> Empty, next_states |-> Empty,
     non_final_mask |-> Empty, non_final_next_states |-> Empty,
     target_out |-> Empty, expected |-> Empty, sq |-> Empty,
     new_priorities |-> Empty]

non_final_mask(next_state) == [k \in DOMAIN next_state |-> next_state[k] # None]

\* [s for s in next_state if s is not None], in row order
RECURSIVE Filter(_, _)
Filter(next_state, n) ==
    IF n = 0 THEN Empty
    ELSE IF next_state[n - 1] # None
         THEN Append0(Filter(next_state, n - 1), next_state[n - 1])
         ELSE Filter(next_state, n - 1)

non_final_next_states(next_state) == Filter(next_state, Len0(next_state))

\* next_q_values = zeros(BATCH_SIZE); next_q_values[non_final_mask] = out
MaskedAssign(mask, out) ==
    [k \in DOMAIN mask |->
        IF mask[k] THEN out[Cardinality({j \in 0 .. (k - 1) : mask[j]})] ELSE 0]

\* expected_q_value = (next_q_values * GAMMA) + reward, in units of 1/GammaDen
expected_q_value(next_q_values, reward) ==
    [k \in DOMAIN reward |-> GammaNum * next_q_values[k] + GammaDen * reward[k]]

\* loss = (q_value - expected_q_value.unsqueeze(1)).pow(2) * weights:
\* a (B,1) column times a (B,) vector broadcasts to a (B,B) matrix
Loss(sq, weights) ==
    [i \in DOMAIN sq |-> [j \in DOMAIN weights |-> Mul(sq[i], weights[j])]]

\* prios = loss.detach() + 1e-5
Prios(loss) == [i \in DOMAIN loss |-> [j \in DOMAIN loss[i] |-> AddEps(loss[i][j])]]

\* the float rows handed to update_priorities, read back in units
PriosInUnits(prios) == [i \in DOMAIN prios |-> [j \in {0} |-> ToUnits(prios[i][j])]]

\* The squared TD error of a row is any non-negative real (the value networks
\* are external); it is drawn as td / weights[0] for td on a grid of units,
\* equal for rows that hold the same slot.
SqErr(s, td) == [k \in DOMAIN s.indices |-> Mul(Nat2Real(td[s.indices[k]]), Inv(s.weights[0]))]

TrainStep(s, b, td) ==
    LET mask == non_final_mask(s.next_states)
        nfns == non_final_next_states(s.next_states)
        out  == [k \in DOMAIN nfns |-> target_net_max(nfns[k])]
        exp  == expected_q_value(MaskedAssign(mask, out), s.rewards)
        sq   == SqErr(s, td)
        prios == PriosInUnits(Prios(Loss(sq, s.weights)))
    IN  [status |-> "ok", beta |-> b, indices |-> s.indices, weights |-> s.weights,
         probs |-> s.probs, rewards |-> s.rewards, next_states |-> s.next_states,
         non_final_mask |-> mask, non_final_next_states |-> nfns,
         target_out |-> out, expected |-> exp, sq |-> sq,
         new_priorities |-> prios]

(* ------------------------------ actions --------------------------------- *)
Init ==
    /\ capacity \in 1 .. MaxCapacity
    /\ memory = Empty
    /\ pos = 0
    /\ priorities = [i \in 0 .. (capacity - 1) |-> 0]
    /\ steps_done = 0
    /\ beta = None
    /\ pc = "act"
    /\ batch = NoBatch
    /\ pushed = 0
    /\ fresh = {}
    /\ sinceUpdate = {}
    /\ call = [op |-> "none"]

push(t) ==
    /\ memory' = StoreTransition(memory, pos, capacity, t)
    /\ priorities' = [priorities EXCEPT ![pos] = max_prio(memory, priorities)]
    /\ pos' = NextPos(pos, capacity)
    /\ pushed' = pushed + 1
    /\ fresh' = fresh \cup {pos}
    /\ sinceUpdate' = sinceUpdate \cup {pos}

\* modele, one time step up to the push
Act ==
    /\ pc = "act"
    /\ steps_done < MaxSteps
    /\ \E o \in StepOutcomes :
          push(Transition(pushed, o.reward,
                          IF o.done THEN None ELSE pushed + 1, o.done))
    /\ steps_done' = steps_done + 1
    /\ pc' = "optimize"
    /\ batch' = NoBatch
    /\ UNCHANGED <<capacity, beta, call>>

\* optimize_model: the buffer is shorter than a batch
OptimizeSkip ==
    /\ pc = "optimize"
    /\ Len0(memory) < BATCH_SIZE
    /\ beta' = beta_by_frame(steps_done)
    /\ pc' = "act"
    /\ UNCHANGED <<capacity, memory, pos, priorities, steps_done, batch,
                   pushed, fresh, sinceUpdate, call>>

\* optimize_model: a batch is drawn, the loss computed, the priorities written
OptimizeTrain ==
    /\ pc = "optimize"
    /\ Len0(memory) >= BATCH_SIZE
    /\ ~SampleRaises
    /\ \E s \in Sample(beta_by_frame(steps_done)) :
          /\ non_final_next_states(s.next_states) # Empty
          /\ \E td \in [{s.indices[k] : k \in DOMAIN s.indices} -> TDGrid] :
                /\ batch' = TrainStep(s, beta_by_frame(steps_done), td)
                /\ priorities' = update_priorities(priorities, s.indices, batch'.new_priorities)
                /\ fresh' = fresh \ {s.indices[k] : k \in DOMAIN s.indices}
    /\ sinceUpdate' = {}
    /\ beta' = beta_by_frame(steps_done)
    /\ pc' = "act"
    /\ UNCHANGED <<capacity, memory, pos, steps_done, pushed, call>>

\* optimize_model: np.random.choice raises, or torch.cat of an empty list does
OptimizeRaise ==
    /\ pc = "optimize"
    /\ Len0(memory) >= BATCH_SIZE
    /\ \E status \in {"ValueError", "RuntimeError"} :
          /\ (status = "ValueError") = SampleRaises
          /\ ~SampleRaises =>
                \E s \in Sample(beta_by_frame(steps_done)) :
                   /\ non_final_next_states(s.next_states) = Empty
                   /\ batch' = [NoBatch EXCEPT !.status = status,
                                   !.beta = beta_by_frame(steps_done),
                                   !.indices = s.indices, !.weights = s.weights,
                                   !.probs = s.probs, !.rewards = s.rewards,
                                   !.next_states = s.next_states,
                                   !.non_final_mask = non_final_mask(s.next_states)]
          /\ SampleRaises => batch' = [NoBatch EXCEPT !.status = status]
    /\ beta' = beta_by_frame(steps_done)
    /\ pc' = "raised"
    /\ UNCHANGED <<capacity, memory, pos, priorities, steps_done,
                   pushed, fresh, sinceUpdate, call>>

Next == Act \/ OptimizeSkip \/ OptimizeTrain \/ OptimizeRaise

Spec == Init /\ [][Next]_vars

(* ---------------- the scheduler alone: steps_done and beta --------------- *)
\* modele, one time step seen from the scheduler: select_action counts the
\* step, then beta = beta_by_frame(steps_done)
Frame ==
    /\ steps_done < MaxFrames
    /\ steps_done' = steps_done + 1
    /\ beta' = beta_by_frame(steps_done')
    /\ UNCHANGED <<capacity, memory, pos, priorities, pc, batch,
                   pushed, fresh, sinceUpdate, call>>

SpecBeta == Init /\ [][Frame]_vars

(* ---------------- the methods of PER called directly -------------------- *)
ApiPrioGrid == {0, 1, 161051}

ApiBetas == {beta_start, BetaScale}

\* the argument vectors of a direct call, of every length up to MaxArgs
Vectors(S) == UNION {[0 .. (n - 1) -> S] : n \in 0 .. MaxArgs}

ApiPush ==
    /\ pushed < MaxSteps
    /\ push(Transition(pushed, 0, pushed + 1, FALSE))
    /\ call' = [op |-> "push", raised |-> FALSE]
    /\ UNCHANGED <<capacity, steps_done, beta, pc, batch>>

ApiSample ==
    /\ \E b \in ApiBetas, raised \in BOOLEAN :
          /\ raised = SampleRaises
          /\ raised => call' = [op |-> "sample", raised |-> TRUE,
                                size |-> Len0(memory), indices |-> Empty,
                                weights |-> Empty]
          /\ ~raised => \E s \in Sample(b) :
                           call' = [op |-> "sample", raised |-> FALSE,
                                    size |-> Len0(memory), indices |-> s.indices,
                                    weights |-> s.weights]
    /\ UNCHANGED <<capacity, memory, pos, priorities, steps_done, beta, pc,
                   batch, pushed, fresh, sinceUpdate>>

ApiUpdate ==
    /\ \E bi \in Vectors(DOMAIN memory),
          bp \in Vectors([{0} -> ApiPrioGrid]) :
          /\ priorities' = update_priorities(priorities, bi, bp)
          /\ call' = [op |-> "update_priorities", raised |-> FALSE,
                      n_indices |-> Len0(bi), n_priorities |-> Len0(bp),
                      before |-> priorities]
          /\ fresh' = fresh \ {bi[k] : k \in 0 .. (Min2(Len0(bi), Len0(bp)) - 1)}
    /\ sinceUpdate' = {}
    /\ UNCHANGED <<capacity, memory, pos, steps_done, beta, pc, batch, pushed>>

NextAPI == ApiPush \/ ApiSample \/ ApiUpdate

SpecAPI == Init /\ [][NextAPI]_vars

(* ============================== claims ================================== *)
Slots == DOMAIN memory

BatchRows == DOMAIN batch.indices

\* C1: after n pushes on a fresh buffer, however the priority updates are
\* interleaved, the length is min(n, capacity), the cursor is n mod capacity,
\* and slot i holds the latest push whose number is i modulo the capacity, so
\* that the buffer holds exactly the most recent min(n, capacity) pushes.
C1_CircularBuffer ==
    /\ capacity > 0
    /\ Len0(memory) = Min2(pushed, capacity)
    /\ pos = pushed % capacity
    /\ Slots = 0 .. (Min2(pushed, capacity) - 1)
    /\ \A i \in Slots :
          /\ memory[i].state % capacity = i
          /\ memory[i].state < pushed
          /\ memory[i].state >= pushed - capacity
    /\ {memory[i].state : i \in Slots} = (pushed - Min2(pushed, capacity)) .. (pushed - 1)

\* five pushes into a buffer of capacity three, a training step in between
C1_Witness ==
    /\ capacity = 3
    /\ pushed = 5
    /\ batch.status = "ok"
    /\ {memory[i].state : i \in Slots} = {2, 3, 4}
    /\ memory[0].state = 3 /\ memory[1].state = 4 /\ memory[2].state = 2

MaxOver(prio, S) == CHOOSE m \in {prio[i] : i \in S} : \A i \in S : prio[i] <= m

\* C2: every push writes, at the cursor, the maximum priority of the
\* meaningful region just before the push, or 1.0 when the buffer holds
\* nothing, and changes the priority of no other slot.
C2_PushSeedsMax ==
    [][pushed' = pushed + 1 =>
         /\ priorities'[pos] =
               (IF Len0(memory) = 0 THEN ONE ELSE MaxOver(priorities, Slots))
         /\ \A i \in DOMAIN priorities : i # pos => priorities'[i] = priorities[i]]_vars

\* a push after an update: the seed is the updated maximum, not 1.0
C2_Witness ==
    /\ pc = "optimize"
    /\ \E i \in sinceUpdate : priorities[i] > ONE

SampleOk(s, b) ==
    /\ Len0(s.indices) = BATCH_SIZE
    /\ Len0(s.weights) = BATCH_SIZE
    /\ Len0(s.probs) = Len0(memory)
    /\ \A k \in DOMAIN s.indices :
          /\ s.indices[k] \in 0 .. (Len0(memory) - 1)
          /\ s.probs[s.indices[k]].n > 0
          /\ Positive(s.weights[k])
          /\ AtMostOne(s.weights[k], b)
    /\ \E k \in DOMAIN s.weights : IsOne(s.weights[k])

\* C3: with at least batch_size transitions, sample does not raise and every
\* batch it can return has batch_size indices in [0, len), all of slots of
\* non-zero probability, and batch_size weights in (0, 1] whose maximum is
\* 1.0; the probability vector has len entries.
C3_SampleShape ==
    /\ (pc = "optimize" /\ Len0(memory) >= BATCH_SIZE) =>
          /\ ~SampleRaises
          /\ \A s \in Sample(beta_by_frame(steps_done)) :
                SampleOk(s, beta_by_frame(steps_done))
    /\ batch.status \in {"ok", "RuntimeError"} => SampleOk(batch, batch.beta)

\* a batch of two slots of different priority: one weight is below 1.0
C3_Witness ==
    /\ batch.status = "ok"
    /\ \E k \in BatchRows : ~IsOne(batch.weights[k])
    /\ \E i \in Slots : batch.probs[i].n # batch.probs[0].n

\* C4: every slot that holds a transition has a strictly positive priority,
\* so the sum that sample normalises by is not zero.
C4_PositivePriorities ==
    /\ \A i \in Slots : priorities[i] > 0
    /\ Len0(memory) > 0 => \A i \in DOMAIN SampleProbs : SampleProbs[i].d > 0

\* a slot whose squared error was zero holds exactly epsilon
C4_Witness ==
    /\ batch.status = "ok"
    /\ \E k \in BatchRows : priorities[batch.indices[k]] = EPS

\* C5: update_priorities with vectors of different lengths raises and leaves
\* the priorities as they were.
C5_MismatchRaises ==
    (call.op = "update_priorities" /\ call.n_indices # call.n_priorities) =>
        (call.raised /\ priorities = call.before)

\* C6: sample on a buffer shorter than batch_size raises; it returns no batch.
C6_ShortBufferRaises ==
    (call.op = "sample" /\ call.size < BATCH_SIZE) => call.raised

\* C7: from its push until update_priorities first writes it (or a push
\* overwrites it), a slot has a priority at least that of every other
\* meaningful slot.
C7_FreshIsMaxUntilEvaluated ==
    \A i \in fresh : \A j \in Slots : priorities[i] >= priorities[j]

\* C7, amended: from its push until the next update_priorities call, on any
\* slot, a slot has a priority at least that of every other meaningful slot,
\* whatever pushes follow.
C7_FreshIsMaxUntilNextUpdate ==
    \A i \in sinceUpdate : \A j \in Slots : priorities[i] >= priorities[j]

\* a pushed slot stands above a slot that an update lowered
C7_Witness ==
    /\ pc = "optimize"
    /\ batch.status = "none"
    /\ \E i \in sinceUpdate : \E j \in Slots \ sinceUpdate : priorities[j] < priorities[i]

\* C8: beta(0) = 0.4, beta(beta_frames) = 1.0, beta is non-decreasing, lies in
\* [0.4, 1.0] and is 1.0 from beta_frames on; the beta the loop passes, that of
\* the never-decreasing steps_done, is at least every beta passed before.
C8_BetaSchedule ==
    /\ beta_by_frame(0) = beta_start
    /\ beta_by_frame(beta_frames) = BetaScale
    /\ beta_by_frame(steps_done) <= beta_by_frame(steps_done + 1)
    /\ beta_start <= beta_by_frame(steps_done)
    /\ beta_by_frame(steps_done) <= BetaScale
    /\ steps_done >= beta_frames => beta_by_frame(steps_done) = BetaScale
    /\ steps_done < beta_frames => beta_by_frame(steps_done) < BetaScale
    /\ beta # None =>
          /\ beta = beta_by_frame(steps_done)
          /\ \A f \in 1 .. steps_done : beta_by_frame(f) <= beta

\* the ramp has been climbed and the clamp holds
C8_Witness ==
    /\ steps_done > beta_frames
    /\ beta = BetaScale

\* C9: after a training step, the priority of each sampled slot is the
\* un-weighted squared TD error of its row plus epsilon.
C9_PriorityIsUnweightedError ==
    batch.status = "ok" =>
        \A k \in BatchRows :
            /\ priorities[batch.indices[k]] >= EPS
            /\ EqReal(batch.sq[k], Nat2Real(priorities[batch.indices[k]] - EPS))

\* C10: for every batch that sample returns, the training step completes, the
\* target network is never given the terminal sentinel, and the target of a
\* row is its reward if it is terminal and reward + gamma * max_a target
\* value of its next state otherwise.
C10_TargetsOfEveryBatch ==
    batch.status \in {"ok", "RuntimeError"} =>
        /\ batch.status = "ok"
        /\ \A k \in DOMAIN batch.non_final_next_states :
              batch.non_final_next_states[k] # None
        /\ \A k \in BatchRows :
              batch.expected[k] =
                 (IF batch.next_states[k] = None
                  THEN GammaDen * batch.rewards[k]
                  ELSE GammaDen * batch.rewards[k]
                          + GammaNum * target_net_max(batch.next_states[k]))

=============================================================================
